---- MODULE Spec2Model ----
(***************************************************************************)
(* Model of the blog automation of youyushi/blogger:                       *)
(*   - enhanced_blog_automation.py / cn_enhanced_blog_automation.py (the   *)
(*     two files have the same logic, only the texts differ): one publish  *)
(*     run = main(), with the history store post_history.json and the      *)
(*     token store blogger_token.json;                                     *)
(*   - blogger_token.py: the OAuth callback that writes blogger_token.json.*)
(*                                                                         *)
(* Strings are sequences of one-character strings.  An ISO timestamp is    *)
(* the pair <<date, second of the day>>; instants are seconds.  A JSON     *)
(* object is a record whose DOMAIN is the set of keys that are present.    *)
(* Labels of a post are not modelled (they decide nothing here).           *)
(***************************************************************************)
EXTENDS Integers, Sequences, FiniteSets, TLC

VARIABLES
    now,            \* the wall clock, in seconds (datetime.now(), time.time())
    historyFile,    \* post_history.json: [readable, entries]
    tokenFile,      \* blogger_token.json: [exists, data]
    pc,             \* position of the publish run: idle, select, content, post, publish, done
    args,           \* parsed command line of the run: [auto, topic]
    config,         \* result of load_config(): [loaded, token_data]
    history,        \* main()'s in-memory history list
    attempt,        \* loop variable of the selection loop
    topic,          \* main()'s variable topic: the last candidate
    selected_topic, \* main()'s variable selected_topic (<<>> is None)
    content_data,   \* main()'s variable content_data
    requests,       \* the HTTP requests the run has issued, in order
    exit_status,    \* exit status of the run (-1 while it is running)
    numGenerated,   \* calls of generate_dynamic_topic() in this run
    lastGenerated,  \* what the last call of generate_dynamic_topic() returned
    numChecked,     \* calls of check_duplicate() in this run
    numDup,         \* calls of check_duplicate() in this run that returned True
    fileAtStart,    \* historyFile as it was when the run started
    published,      \* local dates of the publish POSTs that got status 200 (all runs)
    manualPublish,  \* some of them was made by a run without --auto
    runs,           \* number of runs started
    exchanges,      \* number of OAuth callbacks handled
    tokenPosts,     \* POSTs to the token endpoint issued by the last callback
    reply,          \* what the last OAuth callback returned
    call            \* the function or handler applied last, with its inputs and results

vars == <<now, historyFile, tokenFile, pc, args, config, history, attempt, topic,
          selected_topic, content_data, requests, exit_status, numGenerated,
          lastGenerated, numChecked, numDup, fileAtStart, published,
          manualPublish, runs, exchanges, tokenPosts, reply, call>>

-----------------------------------------------------------------------------
(* Bounds of the model *)
MaxRuns == 2
MaxExchanges == 1
MaxLen == 2

(* Program constants *)
SecondsPerDay == 86400
DuplicateWindow == 86400
MaxHistory == 100
max_attempts == 5
DefaultMaxPostsPerDay == 1
SleepSeconds == 1

Null == 0          \* JSON null / Python None for token values and urls
NoString == <<>>   \* None (or the empty string, equally falsy) for a topic

-----------------------------------------------------------------------------
(* Strings *)
Alphabet == <<"a", "A", "b", "c", "@", " ">>

CharCode(c) == CHOOSE i \in 1..Len(Alphabet) : Alphabet[i] = c

LowerChar(c) == IF c = "A" THEN "a" ELSE c

Lower(s) == [i \in 1..Len(s) |-> LowerChar(s[i])]

\* Python's  needle in hay  for strings
Contains(needle, hay) ==
    \E i \in 0..(Len(hay) - Len(needle)) :
        SubSeq(hay, i + 1, i + Len(needle)) = needle

RECURSIVE Digest(_, _)
Digest(s, h) ==
    IF s = <<>> THEN h
    ELSE Digest(Tail(s), h * (Len(Alphabet) + 1) + CharCode(Head(s)))

\* hashlib.md5(title.encode()).hexdigest(): a digest of the characters,
\* free of collisions on the strings of the model
md5(s) == Digest(s, 1)

-----------------------------------------------------------------------------
(* Timestamps *)
\* datetime.isoformat() of the instant t
isoformat(t) == <<t \div SecondsPerDay, t % SecondsPerDay>>

\* datetime.fromisoformat raises ValueError unless the text is a date and a time
ParseOK(ts) ==
    /\ Len(ts) = 2
    /\ ts[1] >= 0
    /\ ts[2] >= 0
    /\ ts[2] < SecondsPerDay

fromisoformat(ts) == ts[1] * SecondsPerDay + ts[2]

\* strftime('%Y-%m-%d') of the instant t
strftime_date(t) == t \div SecondsPerDay

-----------------------------------------------------------------------------
(* Post History Store *)
\* load_post_history(): the list in the file, [] when it cannot be read
load_post_history(file) == IF file.readable THEN file.entries ELSE <<>>

\* a slip: history[:100], which keeps the oldest entries
Truncate_Oldest(h) ==
    IF Len(h) > MaxHistory THEN SubSeq(h, 1, MaxHistory) ELSE h

\* history[-100:] when len(history) > 100
Truncate(h) ==
    IF Len(h) > MaxHistory THEN SubSeq(h, Len(h) - MaxHistory + 1, Len(h)) ELSE h

SaveOutcomes == {"written", "open_failed", "dump_failed"}

\* save_post_history(history): the file after the call.  open(..., 'w')
\* may fail (the file is left alone) and json.dump may fail after open has
\* emptied the file (the file is left unreadable); both are swallowed.
save_post_history(h, file, outcome) ==
    CASE outcome = "written" -> [readable |-> TRUE, entries |-> Truncate(h)]
      [] outcome = "open_failed" -> file
      [] outcome = "dump_failed" -> [readable |-> FALSE, entries |-> <<>>]

-----------------------------------------------------------------------------
(* Duplicate / Rate Guard *)
\* a slip: the hash comparison moved inside the 24-hour test
PostIsDuplicate_HashInWindow(title, post, t) ==
    /\ "timestamp" \in DOMAIN post
    /\ ParseOK(post.timestamp)
    /\ t - fromisoformat(post.timestamp) < DuplicateWindow
    /\ \/ /\ "title_hash" \in DOMAIN post
          /\ post.title_hash = md5(title)
       \/ /\ "topic" \in DOMAIN post
          /\ Contains(Lower(title), Lower(post.topic))

\* a slip: <= 86400 in place of < 86400
PostIsDuplicate_InclusiveWindow(title, post, t) ==
    \/ /\ "title_hash" \in DOMAIN post
       /\ post.title_hash = md5(title)
    \/ /\ "timestamp" \in DOMAIN post
       /\ ParseOK(post.timestamp)
       /\ t - fromisoformat(post.timestamp) <= DuplicateWindow
       /\ "topic" \in DOMAIN post
       /\ Contains(Lower(title), Lower(post.topic))

\* one iteration of the loop of check_duplicate: does this post make it return True
PostIsDuplicate(title, post, t) ==
    \/ /\ "title_hash" \in DOMAIN post
       /\ post.title_hash = md5(title)
    \/ /\ "timestamp" \in DOMAIN post
       /\ ParseOK(post.timestamp)
       /\ t - fromisoformat(post.timestamp) < DuplicateWindow
       /\ "topic" \in DOMAIN post
       /\ Contains(Lower(title), Lower(post.topic))

\* check_duplicate(title, content, history) evaluated at the instant t: the
\* loop returns True at the first post that matches, False after the last
check_duplicate(title, h, t) ==
    \E i \in 1..Len(h) : PostIsDuplicate(title, h[i], t)

\* a slip: an entry without a timestamp that parses taken for a post of today
PostIsToday_CountsMalformed(post, t) ==
    \/ "timestamp" \notin DOMAIN post
    \/ ~ParseOK(post.timestamp)
    \/ strftime_date(fromisoformat(post.timestamp)) = strftime_date(t)

\* does the loop of should_post_today append this post to today_posts
PostIsToday(post, t) ==
    /\ "timestamp" \in DOMAIN post
    /\ ParseOK(post.timestamp)
    /\ strftime_date(fromisoformat(post.timestamp)) = strftime_date(t)

\* today_posts: the posts the loop has appended (by their index in history)
today_posts(h, t) == { i \in 1..Len(h) : PostIsToday(h[i], t) }

\* a slip: <= in place of <
should_post_today_AtMost(h, max_posts_per_day, t) == Cardinality(today_posts(h, t)) <= max_posts_per_day

\* should_post_today(history, max_posts_per_day) evaluated at the instant t
should_post_today(h, max_posts_per_day, t) == Cardinality(today_posts(h, t)) < max_posts_per_day

-----------------------------------------------------------------------------
(* Inputs of the model *)
\* results of generate_dynamic_topic()
Topics == { <<"a">>, <<"A">> }

\* titles the content provider may give
Titles == { <<"A">> }

Tags == <<"AI">>

\* what the content provider's answer parses to (None: the call or the parse raised)
ProviderResults ==
    { [title |-> t, content |-> "generated", tags |-> Tags] : t \in Titles }
    \cup { [content |-> "generated", tags |-> Tags] }
    \cup { [title |-> t, tags |-> Tags] : t \in Titles }

ProviderOutcomes == {"parsed", "raised"}

\* token files written by other tools: a key "token", with or without a refresh token
LegacyTokenData == { [token |-> 3, refresh_token |-> 8], [token |-> 3] }

\* time between the end of a run and the start of the next
Delays == {0, SecondsPerDay}

StartTime == SecondsPerDay - 2

NoContent == [none |-> TRUE]
NoFile == [readable |-> FALSE, entries |-> <<>>]
NoTokenFile == [readable |-> FALSE, data |-> [none |-> TRUE]]
NoConfig == [loaded |-> FALSE]
NoCall == [fn |-> "none"]

\* a slip: the hash taken of the topic
NewPost_HashOfTopic(t, title, topic_, url) ==
    [timestamp |-> isoformat(t),
     title |-> title,
     title_hash |-> md5(topic_),
     topic |-> topic_,
     url |-> url,
     method |-> "github_actions_v2",
     success |-> TRUE]

\* an entry as main() writes it
NewPost(t, title, topic_, url) ==
    [timestamp |-> isoformat(t),
     title |-> title,
     title_hash |-> md5(title),
     topic |-> topic_,
     url |-> url,
     method |-> "github_actions_v2",
     success |-> TRUE]

InitialHistoryFiles ==
    { NoFile,
      [readable |-> TRUE, entries |-> << NewPost(0, <<"c">>, <<"a">>, 1) >>] }

-----------------------------------------------------------------------------
(* The token store, as blogger_token.py writes it *)
\* dict.get(key, default)
Get(d, k, default) == IF k \in DOMAIN d THEN d[k] ELSE default

\* bodies of a successful token exchange
TokenResponses ==
    { [access_token |-> 1, refresh_token |-> 7, token_type |-> "Bearer", expires_in |-> 3600],
      [access_token |-> 1, token_type |-> "Bearer", expires_in |-> 3600] }

ExchangeOutcomes == {"ok", "http_error", "network_error"}

\* formatted_data of save_token_data; time.time() is read twice, at t1 and t2
FormatTokenData(token_info, t1, t2) ==
    [access_token |-> Get(token_info, "access_token", Null),
     refresh_token |-> Get(token_info, "refresh_token", Null),
     token_type |-> Get(token_info, "token_type", "Bearer"),
     expires_in |-> Get(token_info, "expires_in", Null),
     issued_at |-> t1,
     expires_at |-> t2 + Get(token_info, "expires_in", 0)]

\* a variant: the new fields written over the stored record, the rest kept
save_token_data_Merge(token_info, file, outcome, t1, t2) ==
    CASE outcome = "written" ->
            [readable |-> TRUE,
             data |-> IF file.readable
                      THEN [k \in DOMAIN file.data \cup DOMAIN FormatTokenData(token_info, t1, t2) |->
                               IF k \in DOMAIN token_info \/ k \notin DOMAIN file.data
                               THEN FormatTokenData(token_info, t1, t2)[k]
                               ELSE file.data[k]]
                      ELSE FormatTokenData(token_info, t1, t2)]
      [] outcome = "open_failed" -> file
      [] outcome = "dump_failed" -> NoTokenFile

\* save_token_data(token_info): the token file after the call
save_token_data(token_info, file, outcome, t1, t2) ==
    CASE outcome = "written" -> [readable |-> TRUE, data |-> FormatTokenData(token_info, t1, t2)]
      [] outcome = "open_failed" -> file
      [] outcome = "dump_failed" -> NoTokenFile

\* the token files a run may find: none, one written by another tool, or one
\* that save_token_data wrote at the instant 0
InitialTokenFiles ==
    { NoTokenFile }
    \cup { [readable |-> TRUE, data |-> d] : d \in LegacyTokenData }
    \cup { save_token_data(r, NoTokenFile, "written", 0, 0) : r \in TokenResponses }

-----------------------------------------------------------------------------
(* The publish run: main() *)
Init ==
    /\ now = StartTime
    /\ historyFile \in InitialHistoryFiles
    /\ tokenFile \in InitialTokenFiles
    /\ pc = "idle"
    /\ args = [auto |-> FALSE, topic |-> NoString]
    /\ config = NoConfig
    /\ history = <<>>
    /\ attempt = 0
    /\ topic = NoString
    /\ selected_topic = NoString
    /\ content_data = NoContent
    /\ requests = <<>>
    /\ exit_status = -1
    /\ numGenerated = 0
    /\ lastGenerated = NoString
    /\ numChecked = 0
    /\ numDup = 0
    /\ fileAtStart = historyFile
    /\ published = <<>>
    /\ manualPublish = FALSE
    /\ runs = 0
    /\ exchanges = 0
    /\ tokenPosts = 0
    /\ reply = "none"
    /\ call = NoCall

\* the environment variables load_config reads
EnvNames == {"GOOGLE_CLIENT_ID", "GOOGLE_CLIENT_SECRET", "BLOGGER_BLOG_ID", "GEMINI_API_KEY"}

\* os.environ.get(name, '***'); environ is the set of the variables that are
\* set (to a value that is not empty)
EnvGet(environ, name) == IF name \in environ THEN "set" ELSE "***"

\* load_config(): None when the token file cannot be read or the Gemini key
\* is missing; the other three values are taken as they come
load_config(file, environ) ==
    IF file.readable /\ EnvGet(environ, "GEMINI_API_KEY") # "***"
    THEN [loaded |-> TRUE,
          google_client_id |-> EnvGet(environ, "GOOGLE_CLIENT_ID"),
          google_client_secret |-> EnvGet(environ, "GOOGLE_CLIENT_SECRET"),
          blog_id |-> EnvGet(environ, "BLOGGER_BLOG_ID"),
          gemini_api_key |-> EnvGet(environ, "GEMINI_API_KEY"),
          token_data |-> file.data]
    ELSE NoConfig

\* a slip: the test of should_post_today inverted
SkipToday_Inverted(auto, h, t) == auto /\ should_post_today(h, DefaultMaxPostsPerDay, t)

\* if args.auto: if not should_post_today(history): return
SkipToday(auto, h, t) == auto /\ ~should_post_today(h, DefaultMaxPostsPerDay, t)

\* main() from the start to the daily check, delay after the previous run
\* ended: parse the arguments, load the configuration and the history, and in
\* auto mode return when today's post is done
Start(delay, auto, argTopic, environ) ==
    /\ pc = "idle"
    /\ runs < MaxRuns
    /\ runs' = runs + 1
    /\ now' = now + delay
    /\ args' = [auto |-> auto, topic |-> argTopic]
    /\ config' = load_config(tokenFile, environ)
    /\ fileAtStart' = historyFile
    /\ attempt' = 0
    /\ topic' = NoString
    /\ selected_topic' = NoString
    /\ content_data' = NoContent
    /\ requests' = <<>>
    /\ numGenerated' = 0
    /\ lastGenerated' = NoString
    /\ numChecked' = 0
    /\ numDup' = 0
    /\ IF ~config'.loaded
       THEN /\ history' = <<>>
            /\ pc' = "done"
            /\ exit_status' = 1
       ELSE /\ history' = load_post_history(historyFile)
            /\ IF SkipToday(auto, history', now')
               THEN pc' = "done" /\ exit_status' = 0
               ELSE pc' = "select" /\ exit_status' = -1
    /\ UNCHANGED <<historyFile, tokenFile, published, manualPublish, exchanges, tokenPosts,
                   reply, call>>

\* a slip: the result of check_duplicate ignored
Selects_Always(duplicate) == TRUE

\* if not check_duplicate(topic, "", history): the candidate is selected
Selects(duplicate) == ~duplicate

\* one iteration of the selection loop; generated is what
\* generate_dynamic_topic() returns when it is called
Attempt(generated) ==
    /\ pc = "select"
    /\ attempt < max_attempts
    /\ LET candidate == IF args.topic # NoString THEN args.topic ELSE generated
           duplicate == check_duplicate(candidate, history, now)
       IN /\ topic' = candidate
          /\ numGenerated' = IF args.topic # NoString THEN numGenerated ELSE numGenerated + 1
          /\ lastGenerated' = IF args.topic # NoString THEN lastGenerated ELSE generated
          /\ numChecked' = numChecked + 1
          /\ IF Selects(duplicate)
             THEN /\ selected_topic' = candidate
                  /\ pc' = "content"
                  /\ UNCHANGED <<attempt, numDup, now>>
             ELSE /\ numDup' = numDup + 1
                  /\ now' = now + SleepSeconds
                  /\ attempt' = attempt + 1
                  /\ UNCHANGED <<selected_topic, pc>>
    /\ UNCHANGED <<historyFile, tokenFile, args, config, history, content_data,
                   requests, exit_status, fileAtStart, published, manualPublish, runs, exchanges, tokenPosts, reply, call>>

\* a variant: the last candidate of the loop kept
FinalSelection_LastCandidate(generated, last_candidate) == last_candidate

\* selected_topic = generate_dynamic_topic() after the loop: the topic just
\* generated, whatever the last candidate of the loop was
FinalSelection(generated, last_candidate) == generated

\* after the loop: if not selected_topic: selected_topic = generate_dynamic_topic()
FinalTopic(generated) ==
    /\ pc = "select"
    /\ attempt = max_attempts
    /\ selected_topic = NoString
    /\ selected_topic' = FinalSelection(generated, topic)
    /\ numGenerated' = numGenerated + 1
    /\ lastGenerated' = generated
    /\ pc' = "content"
    /\ UNCHANGED <<now, historyFile, tokenFile, args, config, history, attempt,
                   topic, content_data, requests, exit_status, numChecked, numDup,
                   fileAtStart, published, manualPublish, runs, exchanges, tokenPosts,
                   reply, call>>

\* the placeholder article of generate_high_quality_content
FallbackContent(topic_) ==
    [title |-> <<"@", " ">> \o topic_, content |-> "placeholder", tags |-> Tags]

\* generate_high_quality_content(topic) for an outcome of the provider
generate_high_quality_content(topic_, outcome, result) ==
    IF outcome = "parsed" THEN result ELSE FallbackContent(topic_)

\* main() from content generation to the call of post_to_blog: the arguments
\* of the call read content_data['title'], a KeyError when the key is missing
GenerateContent(outcome, result) ==
    /\ pc = "content"
    /\ content_data' = generate_high_quality_content(selected_topic, outcome, result)
    /\ IF "title" \in DOMAIN content_data'
       THEN pc' = "post" /\ exit_status' = exit_status
       ELSE pc' = "done" /\ exit_status' = 1
    /\ UNCHANGED <<now, historyFile, tokenFile, args, config, history, attempt,
                   topic, selected_topic, requests, numGenerated, lastGenerated, numChecked,
                   numDup, fileAtStart, published, manualPublish, runs, exchanges,
                   tokenPosts, reply, call>>

RefreshOutcomes == {"ok", "http_error", "network_error"}

\* access tokens the token endpoint gives out on a refresh
NewAccessTokens == {2}

\* token_data['token'] = value
SetToken(token_data, value) ==
    [k \in DOMAIN token_data \cup {"token"} |->
        IF k = "token" THEN value ELSE token_data[k]]

\* a slip: the stored token dropped when the refresh fails
Refreshed_ClearsOnFailure(token_data, outcome, new_access_token) ==
    IF outcome = "ok"
    THEN SetToken(token_data, new_access_token)
    ELSE SetToken(token_data, Null)

\* a slip: the answer of a successful refresh not taken over
Refreshed_Ignored(token_data, outcome, new_access_token) == token_data

\* token_data after the refresh request: on status 200 the key token is set
\* to the new access token; on any other status, and on an exception, which
\* the bare except swallows, token_data is left as it is
Refreshed(token_data, outcome, new_access_token) ==
    IF outcome = "ok"
    THEN SetToken(token_data, new_access_token)
    ELSE token_data

\* post_to_blog up to the request headers: the refresh request when
\* token_data has the key refresh_token, then token_data["token"] is read,
\* a KeyError when the key is missing
RefreshToken(outcome, new_access_token) ==
    /\ pc = "post"
    /\ LET token_data == config.token_data
           attempted == "refresh_token" \in DOMAIN token_data
           refreshed == IF attempted
                        THEN Refreshed(token_data, outcome, new_access_token)
                        ELSE token_data
       IN /\ requests' = IF attempted
                         THEN Append(requests, [kind |-> "refresh",
                                                credential |-> token_data.refresh_token,
                                                outcome |-> outcome])
                         ELSE requests
          /\ config' = [config EXCEPT !.token_data = refreshed]
          /\ IF "token" \in DOMAIN refreshed
             THEN pc' = "publish" /\ exit_status' = exit_status
             ELSE pc' = "done" /\ exit_status' = 1
    /\ UNCHANGED <<now, historyFile, tokenFile, args, history, attempt, topic,
                   selected_topic, content_data, numGenerated, lastGenerated, numChecked, numDup,
                   fileAtStart, published, manualPublish, runs, exchanges, tokenPosts,
                   reply, call>>

PublishOutcomes == {"ok", "http_error", "network_error"}

\* bodies of a 200 response: a post with its url, {}, not JSON
PublishBodies == {"post", "empty", "invalid"}

\* a slip: every HTTP response taken for a success
PostResultTruthy_AnyResponse(outcome, body) == outcome # "network_error"

\* what post_to_blog returns is truthy
PostResultTruthy(outcome, body) == outcome = "ok" /\ body = "post"

\* a variant: the publish POST made again after a failure
AfterPublish_Retry(truthy) == IF truthy THEN "done" ELSE "publish"

\* where main() goes after post_to_blog has returned: to its end, through
\* the history update on a truthy result, through sys.exit(1) otherwise
AfterPublish(truthy) == "done"

\* a variant: the failure of the save passed on as a failure of the run
ExitAfterSave_FailsRun(saved) == IF saved = "written" THEN 0 ELSE 1

\* exit status of main() after save_post_history, which returns nothing and
\* swallows every exception: main() runs to its end
ExitAfterSave(saved) == 0

\* post_to_blog from the publish POST on, and the rest of main(): on a truthy
\* result the new entry is appended and the history saved, else sys.exit(1)
Publish(outcome, body, saved) ==
    /\ pc = "publish"
    /\ requests' = Append(requests, [kind |-> "publish",
                                     credential |-> config.token_data.token,
                                     outcome |-> outcome])
    /\ published' = IF outcome = "ok" THEN Append(published, strftime_date(now)) ELSE published
    /\ manualPublish' = (manualPublish \/ (outcome = "ok" /\ ~args.auto))
    /\ pc' = AfterPublish(PostResultTruthy(outcome, body))
    /\ IF PostResultTruthy(outcome, body)
       THEN /\ history' = Append(history,
                    NewPost(now, content_data.title, selected_topic, 1))
            /\ historyFile' = save_post_history(history', historyFile, saved)
            /\ call' = [fn |-> "save_post_history", outcome |-> saved]
            /\ exit_status' = ExitAfterSave(saved)
       ELSE /\ exit_status' = 1
            /\ UNCHANGED <<history, historyFile, call>>
    /\ UNCHANGED <<now, tokenFile, args, config, attempt, topic, selected_topic,
                   content_data, numGenerated, lastGenerated, numChecked, numDup, fileAtStart,
                   runs, exchanges, tokenPosts, reply>>

\* the process of the run ends: its variables are gone
Exit ==
    /\ pc = "done"
    /\ pc' = "idle"
    /\ args' = [auto |-> FALSE, topic |-> NoString]
    /\ config' = NoConfig
    /\ history' = <<>>
    /\ attempt' = 0
    /\ topic' = NoString
    /\ selected_topic' = NoString
    /\ content_data' = NoContent
    /\ requests' = <<>>
    /\ exit_status' = -1
    /\ numGenerated' = 0
    /\ lastGenerated' = NoString
    /\ numChecked' = 0
    /\ numDup' = 0
    /\ fileAtStart' = historyFile
    /\ call' = NoCall
    /\ UNCHANGED <<now, historyFile, tokenFile, published, manualPublish, runs, exchanges,
                   tokenPosts, reply>>

-----------------------------------------------------------------------------
(* The OAuth callback of blogger_token.py *)
NoToken == [none |-> TRUE]

\* bool(response) for a response that was received: Response.__bool__ is
\* Response.ok, False for a 4xx or 5xx status
ResponseTruthy(outcome) == outcome = "ok"

\* a slip: raise_for_status left out, the body of an error response returned
get_access_token_NoRaiseForStatus(outcome, token_info) ==
    CASE outcome = "ok" ->
            [raised |-> FALSE, ret |-> token_info, reported |-> {}]
      [] outcome = "http_error" ->
            [raised |-> FALSE, ret |-> [error |-> "invalid_grant"], reported |-> {}]
      [] outcome = "network_error" ->
            [raised |-> TRUE, ret |-> NoToken, reported |-> {"error"}]

\* get_access_token(code) for an outcome of the one POST to the token
\* endpoint: what it returns, what it prints, and whether it raises.  On a
\* network error requests.post raises before the local response is bound,
\* and the handler's  if response:  raises UnboundLocalError.
get_access_token(outcome, token_info) ==
    CASE outcome = "ok" ->
            [raised |-> FALSE, ret |-> token_info, reported |-> {}]
      [] outcome = "http_error" ->
            [raised |-> FALSE, ret |-> NoToken,
             reported |-> {"error"} \cup (IF ResponseTruthy(outcome)
                                          THEN {"status_code", "body"} ELSE {})]
      [] outcome = "network_error" ->
            [raised |-> TRUE, ret |-> NoToken, reported |-> {"error"}]

\* a slip: True returned after a failed write
SaveReturns_AlwaysTrue(saved) == TRUE

\* what save_token_data returns: True after the write, False when open or
\* json.dump raised (the except clause swallows the exception)
SaveReturns(saved) == saved = "written"

\* GET /callback?code=...&error=...
Callback(code, error, outcome, token_info, saved, t2) ==
    /\ pc = "idle"
    /\ exchanges < MaxExchanges
    /\ exchanges' = exchanges + 1
    /\ IF error
       THEN /\ reply' = "error_400"
            /\ tokenPosts' = 0
            /\ call' = [fn |-> "callback", code |-> code, error |-> error,
                        exchanged |-> FALSE]
            /\ UNCHANGED <<tokenFile, now>>
       ELSE IF ~code
       THEN /\ reply' = "no_code_400"
            /\ tokenPosts' = 0
            /\ call' = [fn |-> "callback", code |-> code, error |-> error,
                        exchanged |-> FALSE]
            /\ UNCHANGED <<tokenFile, now>>
       ELSE LET got == get_access_token(outcome, token_info)
            IN /\ tokenPosts' = 1
               /\ IF got.raised
                  THEN /\ reply' = "raised"
                       /\ call' = [fn |-> "callback", code |-> code, error |-> error,
                                   exchanged |-> TRUE, outcome |-> outcome,
                                   got |-> got, before |-> tokenFile]
                       /\ UNCHANGED <<tokenFile, now>>
                  ELSE IF got.ret = NoToken
                  THEN /\ reply' = "exchange_failed_500"
                       /\ call' = [fn |-> "callback", code |-> code, error |-> error,
                                   exchanged |-> TRUE, outcome |-> outcome,
                                   got |-> got, before |-> tokenFile]
                       /\ UNCHANGED <<tokenFile, now>>
                  ELSE /\ tokenFile' = save_token_data(got.ret, tokenFile, saved, now, t2)
                       /\ now' = t2
                       /\ reply' = IF SaveReturns(saved) THEN "saved" ELSE "save_failed_500"
                       /\ call' = [fn |-> "callback", code |-> code, error |-> error,
                                   exchanged |-> TRUE, outcome |-> outcome,
                                   got |-> got, before |-> tokenFile, saved |-> saved]
    /\ UNCHANGED <<historyFile, pc, args, config, history, attempt, topic,
                   selected_topic, content_data, requests, exit_status,
                   numGenerated, lastGenerated, numChecked, numDup, fileAtStart, published, manualPublish, runs>>

-----------------------------------------------------------------------------
\* the environments of the runs: every variable set, or the Gemini key missing
Environs == { EnvNames, EnvNames \ {"GEMINI_API_KEY"} }

Next ==
    \/ \E d \in Delays, auto \in BOOLEAN, argTopic \in {NoString, <<"A">>},
          environ \in Environs :
          Start(d, auto, argTopic, environ)
    \/ \E g \in Topics : Attempt(g)
    \/ \E g \in Topics : FinalTopic(g)
    \/ \E o \in ProviderOutcomes, r \in ProviderResults : GenerateContent(o, r)
    \/ \E o \in RefreshOutcomes, n \in NewAccessTokens : RefreshToken(o, n)
    \/ \E o \in PublishOutcomes, b \in PublishBodies, s \in SaveOutcomes : Publish(o, b, s)
    \/ Exit

Spec == Init /\ [][Next]_vars

(* The publish runs in every environment: any of the variables may be missing *)
NextEnv ==
    \/ \E d \in Delays, auto \in BOOLEAN, argTopic \in {NoString, <<"A">>},
          environ \in SUBSET EnvNames :
          Start(d, auto, argTopic, environ)
    \/ \E g \in Topics : Attempt(g)
    \/ \E g \in Topics : FinalTopic(g)
    \/ \E o \in ProviderOutcomes, r \in ProviderResults : GenerateContent(o, r)
    \/ \E o \in RefreshOutcomes, n \in NewAccessTokens : RefreshToken(o, n)
    \/ \E o \in PublishOutcomes, b \in PublishBodies, s \in SaveOutcomes : Publish(o, b, s)
    \/ Exit

SpecEnv == Init /\ [][NextEnv]_vars

(* The token acquisition script on its own: one callback after the other *)
NextToken ==
    \E code \in BOOLEAN, error \in BOOLEAN, o \in ExchangeOutcomes,
       r \in TokenResponses, s \in SaveOutcomes, t2 \in {now, now + 1} :
       Callback(code, error, o, r, s, t2)

SpecToken == Init /\ [][NextToken]_vars

-----------------------------------------------------------------------------
(* The functions of the guard and of the history store on their own *)
FnTitles == { <<"A">>, <<"c">> }

FnTopics == { <<"a", "b">>, <<"c">> }

FnTimestamps == { <<>>, isoformat(0), isoformat(1), isoformat(SecondsPerDay) }

FnEntries ==
    { [title_hash |-> md5(t), topic |-> p] : t \in FnTitles, p \in FnTopics }
    \cup { [topic |-> p] : p \in FnTopics }
    \cup { [title_hash |-> md5(t)] : t \in FnTitles }
    \cup { [timestamp |-> ts, title_hash |-> md5(t), topic |-> p] :
             ts \in FnTimestamps, t \in FnTitles, p \in FnTopics }
    \cup { [timestamp |-> ts, topic |-> p] : ts \in FnTimestamps, p \in FnTopics }
    \cup { [timestamp |-> ts] : ts \in FnTimestamps }

FnNows == { SecondsPerDay, SecondsPerDay + 1 }

\* n entries, the i-th stamped with the instant i
LongHistory(n) == [i \in 1..n |-> NewPost(i, <<"c">>, <<"c">>, Null)]

ShortHistories == UNION { [1..n -> FnEntries] : n \in 0..MaxLen }

FnHistories ==
    ShortHistories
    \cup { LongHistory(n) : n \in {MaxHistory - 1, MaxHistory, MaxHistory + 1, MaxHistory + 5} }

InitFn ==
    /\ now \in FnNows
    /\ history \in FnHistories
    /\ historyFile \in { NoFile, [readable |-> TRUE, entries |-> <<>>] }
    /\ tokenFile = NoTokenFile
    /\ pc = "idle"
    /\ args = [auto |-> FALSE, topic |-> NoString]
    /\ config = NoConfig
    /\ attempt = 0
    /\ topic = NoString
    /\ selected_topic = NoString
    /\ content_data = NoContent
    /\ requests = <<>>
    /\ exit_status = -1
    /\ numGenerated = 0
    /\ lastGenerated = NoString
    /\ numChecked = 0
    /\ numDup = 0
    /\ fileAtStart = historyFile
    /\ published = <<>>
    /\ manualPublish = FALSE
    /\ runs = 0
    /\ exchanges = 0
    /\ tokenPosts = 0
    /\ reply = "none"
    /\ call = NoCall

FnUnchanged ==
    UNCHANGED <<now, tokenFile, pc, args, config, history, attempt, topic,
                selected_topic, content_data, requests, exit_status, numGenerated, lastGenerated,
                numChecked, numDup, fileAtStart, published, manualPublish, runs, exchanges,
                tokenPosts, reply>>

ApplyCheckDuplicate(title) ==
    /\ call = NoCall
    /\ call' = [fn |-> "check_duplicate", title |-> title,
                ret |-> check_duplicate(title, history, now)]
    /\ UNCHANGED historyFile
    /\ FnUnchanged

ApplyShouldPostToday(max_posts_per_day) ==
    /\ call = NoCall
    /\ call' = [fn |-> "should_post_today", max_posts_per_day |-> max_posts_per_day,
                ret |-> should_post_today(history, max_posts_per_day, now)]
    /\ UNCHANGED historyFile
    /\ FnUnchanged

ApplySave(outcome) ==
    /\ call = NoCall
    /\ call' = [fn |-> "save_post_history", outcome |-> outcome]
    /\ historyFile' = save_post_history(history, historyFile, outcome)
    /\ FnUnchanged

NextFn ==
    \/ \E t \in FnTitles : ApplyCheckDuplicate(t)
    \/ \E m \in 0..(MaxLen + 1) : ApplyShouldPostToday(m)
    \/ \E o \in SaveOutcomes : ApplySave(o)

SpecFn == InitFn /\ [][NextFn]_vars

-----------------------------------------------------------------------------
(* The publish runs on a history file that is full, or one entry short of it *)
LongHistoryFiles ==
    { [readable |-> TRUE, entries |-> LongHistory(n)] : n \in {MaxHistory - 1, MaxHistory} }

InitLong ==
    /\ now = StartTime
    /\ historyFile \in LongHistoryFiles
    /\ tokenFile = [readable |-> TRUE, data |-> [token |-> 3]]
    /\ pc = "idle"
    /\ args = [auto |-> FALSE, topic |-> NoString]
    /\ config = NoConfig
    /\ history = <<>>
    /\ attempt = 0
    /\ topic = NoString
    /\ selected_topic = NoString
    /\ content_data = NoContent
    /\ requests = <<>>
    /\ exit_status = -1
    /\ numGenerated = 0
    /\ lastGenerated = NoString
    /\ numChecked = 0
    /\ numDup = 0
    /\ fileAtStart = historyFile
    /\ published = <<>>
    /\ manualPublish = FALSE
    /\ runs = 0
    /\ exchanges = 0
    /\ tokenPosts = 0
    /\ reply = "none"
    /\ call = NoCall

\* the topics generated here are not in the stored entries: the selection
\* loop takes its first candidate
NextLong ==
    \/ \E d \in Delays, auto \in BOOLEAN : Start(d, auto, NoString, EnvNames)
    \/ \E g \in Topics : Attempt(g)
    \/ \E o \in ProviderOutcomes, r \in ProviderResults : GenerateContent(o, r)
    \/ \E o \in RefreshOutcomes, n \in NewAccessTokens : RefreshToken(o, n)
    \/ \E o \in PublishOutcomes, b \in PublishBodies, s \in SaveOutcomes : Publish(o, b, s)
    \/ Exit

SpecLong == InitLong /\ [][NextLong]_vars

-----------------------------------------------------------------------------
(* Properties *)
Last(q) == q[Len(q)]

Min(a, b) == IF a < b THEN a ELSE b

\* the run issued a publish POST and it failed: a network error or a status other than 200
PublishFailed ==
    /\ requests # <<>>
    /\ Last(requests).kind = "publish"
    /\ Last(requests).outcome \in {"http_error", "network_error"}

\* the run has come to its end after calling post_to_blog
PostToBlogCalled == pc = "done" /\ "title" \in DOMAIN content_data

\* C1: over auto-mode runs that follow one another on one history store, at
\* most one publish POST per local calendar day succeeds.
C1_DailyCap ==
    ~manualPublish
        => \A i, j \in 1..Len(published) : i < j => published[i] # published[j]

\* C2: a run whose publish request fails appends no history entry, leaves the
\* history file as it was when the run started, and exits with a non-zero status.
C2_FailedPublishLeavesHistory ==
    (pc = "done" /\ PublishFailed)
        => /\ history = load_post_history(fileAtStart)
           /\ historyFile = fileAtStart
           /\ exit_status > 0

C2_Witness ==
    /\ pc = "done"
    /\ PublishFailed
    /\ Last(requests).outcome = "http_error"
    /\ Len(history) > 0
    /\ historyFile.readable

\* C3: a run in auto mode whose loaded history has an entry dated today ends
\* at once with exit status 0: no topic generated, no request issued, the
\* history file not written; after its end nothing but the process exit follows.
C3_SkipIsCleanExit ==
    [][ /\ ( /\ pc = "idle"
             /\ pc' # "idle"
             /\ config'.loaded
             /\ args'.auto
             /\ ~should_post_today(load_post_history(historyFile), DefaultMaxPostsPerDay, now') )
          => /\ pc' = "done"
             /\ exit_status' = 0
             /\ numGenerated' = 0
             /\ numChecked' = 0
             /\ requests' = <<>>
             /\ historyFile' = historyFile
        /\ pc = "done"
          => /\ pc' = "idle"
             /\ requests' = <<>>
             /\ numGenerated' = 0
             /\ historyFile' = historyFile ]_vars

C3_Witness ==
    /\ pc = "done"
    /\ config.loaded
    /\ args.auto
    /\ Len(history) > 0
    /\ ~should_post_today(history, DefaultMaxPostsPerDay, now)
    /\ exit_status = 0
    /\ numChecked = 0

\* the entries of h whose timestamp is a date and time of the local day of t
DatedToday(h, t) ==
    { i \in 1..Len(h) :
        /\ "timestamp" \in DOMAIN h[i]
        /\ ParseOK(h[i].timestamp)
        /\ h[i].timestamp[1] = t \div SecondsPerDay }

\* C4: should_post_today returns true exactly when the number of entries dated
\* today is strictly less than max_posts_per_day (false for a maximum of 1 and
\* one entry dated today).
C4_ShouldPostTodayIffBelowMax ==
    call.fn = "should_post_today"
        => call.ret = (Cardinality(DatedToday(history, now)) < call.max_posts_per_day)

C4_Witness ==
    /\ call.fn = "should_post_today"
    /\ call.max_posts_per_day = 1
    /\ Cardinality(DatedToday(history, now)) = 1
    /\ Len(history) = 2
    /\ call.ret = FALSE

\* some entry of h carries the hash of the title
HashMatch(title, h) ==
    \E i \in 1..Len(h) : "title_hash" \in DOMAIN h[i] /\ h[i].title_hash = md5(title)

\* the entry has a topic that contains the title, letter case apart
TopicContains(title, post) ==
    "topic" \in DOMAIN post /\ Contains(Lower(title), Lower(post.topic))

HasAge(post) == "timestamp" \in DOMAIN post /\ ParseOK(post.timestamp)

Age(post, t) == t - fromisoformat(post.timestamp)

\* C5: when the hash of the title equals the title_hash of some entry,
\* check_duplicate returns true, whatever the age or the timestamp of that entry.
C5_HashMatchIsDuplicate ==
    (call.fn = "check_duplicate" /\ HashMatch(call.title, history)) => call.ret = TRUE

C5_Witness ==
    /\ call.fn = "check_duplicate"
    /\ Len(history) = 2
    /\ ~HashMatch(call.title, <<history[1]>>)
    /\ ~TopicContains(call.title, history[1])
    /\ "title_hash" \in DOMAIN history[2]
    /\ history[2].title_hash = md5(call.title)
    /\ "timestamp" \in DOMAIN history[2]
    /\ ~ParseOK(history[2].timestamp)
    /\ call.ret = TRUE

\* C6: without a hash match, check_duplicate is true when some entry less than
\* 86400 seconds old has a topic that contains the title, and false when every
\* entry whose topic contains the title is 86400 seconds old or older.
C6_TopicWindowIsExclusive ==
    (call.fn = "check_duplicate" /\ ~HashMatch(call.title, history))
        => /\ (\E i \in 1..Len(history) :
                  /\ HasAge(history[i])
                  /\ Age(history[i], now) < 86400
                  /\ TopicContains(call.title, history[i]))
              => call.ret = TRUE
           /\ (\A i \in 1..Len(history) :
                  TopicContains(call.title, history[i])
                      => HasAge(history[i]) /\ Age(history[i], now) >= 86400)
              => call.ret = FALSE

C6_Witness ==
    /\ call.fn = "check_duplicate"
    /\ ~HashMatch(call.title, history)
    /\ Len(history) = 1
    /\ TopicContains(call.title, history[1])
    /\ HasAge(history[1])
    /\ Age(history[1], now) = 86400
    /\ call.ret = FALSE

\* C7 as stated: after 5 duplicates in a row the topic used, and recorded in
\* the history, is the 5th candidate.
C7_FifthCandidateUsed ==
    (numDup = 5 /\ selected_topic # NoString)
        => /\ selected_topic = topic
           /\ exit_status = 0 => Last(history).topic = topic

\* C7 amended: after 5 duplicates in a row one more topic is generated, and
\* this topic, which is never checked, is the one used for the content and
\* recorded in the history.
C7_FreshTopicAfterFiveDuplicates ==
    (numDup = 5 /\ selected_topic # NoString)
        => /\ numChecked = 5
           /\ numGenerated = (IF args.topic # NoString THEN 1 ELSE 6)
           /\ selected_topic = lastGenerated
           /\ ("content" \in DOMAIN content_data /\ content_data.content = "placeholder")
                 => content_data.title = <<"@", " ">> \o selected_topic
           /\ exit_status = 0 => Last(history).topic = selected_topic

C7_Witness ==
    /\ numDup = 5
    /\ args.topic = NoString
    /\ selected_topic # topic
    /\ exit_status = 0
    /\ Last(history).topic = selected_topic
    /\ historyFile.readable
    /\ Last(historyFile.entries).topic = selected_topic

\* C8 as stated: at most 5 topics are generated in a run, and the one selected
\* is the first for which check_duplicate returned false.
C8_AtMostFiveGenerated ==
    /\ numGenerated <= 5
    /\ (selected_topic # NoString /\ pc = "content")
          => selected_topic = topic /\ ~check_duplicate(selected_topic, history, now)

\* C8 amended: the loop checks at most 5 candidates and selects the first for
\* which check_duplicate returns false, generating none after it; a sixth topic
\* is generated only after 5 duplicates, so at most 6 are generated in a run.
C8_AtMostFiveChecked ==
    /\ numChecked <= 5
    /\ numGenerated <= 6
    /\ numGenerated = 6 => numDup = 5
    /\ numDup <= numChecked
    /\ (selected_topic # NoString /\ numDup < 5)
          => /\ numChecked = numDup + 1
             /\ selected_topic = topic
             /\ numGenerated = (IF args.topic # NoString THEN 0 ELSE numChecked)
             /\ pc = "content" => ~check_duplicate(selected_topic, history, now)
    /\ (selected_topic = NoString /\ pc = "select") => numChecked = numDup

C8_Witness ==
    /\ pc = "content"
    /\ args.topic = NoString
    /\ numDup = 2
    /\ numChecked = 3
    /\ numGenerated = 3
    /\ selected_topic = topic

\* C9: a save that writes leaves at most 100 entries in the file: the last
\* 100 of the given list, in their order (of 105 the oldest 5 are dropped).
C9_SaveKeepsLastHundred ==
    (call.fn = "save_post_history" /\ call.outcome = "written")
        => /\ historyFile.readable
           /\ Len(historyFile.entries) = Min(Len(history), 100)
           /\ \A j \in 1..Len(historyFile.entries) :
                 historyFile.entries[j] =
                     history[Len(history) - Len(historyFile.entries) + j]

C9_Witness ==
    /\ call.fn = "save_post_history"
    /\ call.outcome = "written"
    /\ Len(history) = 105
    /\ Len(historyFile.entries) = 100
    /\ historyFile.entries[1] = history[6]
    /\ historyFile.entries[100] = history[105]

\* C10: in a run that works with a token record persisted by blogger_token.py,
\* when the refresh request fails or is not made, the publish request is still
\* issued and carries the stored access token.
C10_FallsBackToStoredToken ==
    ( /\ PostToBlogCalled
      /\ "access_token" \in DOMAIN config.token_data
      /\ \A i \in 1..Len(requests) :
            requests[i].kind = "refresh"
                => requests[i].outcome \in {"http_error", "network_error"} )
        => \E i \in 1..Len(requests) :
              /\ requests[i].kind = "publish"
              /\ requests[i].credential = config.token_data.access_token

\* the last request of the run is a refresh request that failed: a status
\* other than 200 or an exception from the request
RefreshFailed(reqs) ==
    /\ reqs # <<>>
    /\ Last(reqs).kind = "refresh"
    /\ Last(reqs).outcome \in {"http_error", "network_error"}

\* C11: a failed token refresh leaves every field of the in-memory token
\* record and the token file unchanged, and the refresh step raises nothing:
\* a run whose record has the key token goes on to the publish request.
C11_FailedRefreshLeavesToken ==
    [][ (pc = "post" /\ requests' # requests /\ RefreshFailed(requests'))
          => /\ config'.token_data = config.token_data
             /\ tokenFile' = tokenFile
             /\ "token" \in DOMAIN config.token_data
                   => pc' = "publish" /\ exit_status' = -1 ]_vars

C11_Witness ==
    /\ pc = "publish"
    /\ RefreshFailed(requests)
    /\ Last(requests).outcome = "network_error"
    /\ config.token_data = tokenFile.data
    /\ config.token_data.token = 3
    /\ config.token_data.refresh_token = 8

\* the run has made a refresh request that was answered with status 200
RefreshSucceeded(reqs) ==
    /\ reqs # <<>>
    /\ reqs[1].kind = "refresh"
    /\ reqs[1].outcome = "ok"

\* C12 as stated: after a successful refresh the token file holds the renewed
\* access token.
C12_RenewedTokenInFile ==
    RefreshSucceeded(requests)
        => /\ tokenFile.readable
           /\ \/ Get(tokenFile.data, "token", Null) = config.token_data.token
              \/ Get(tokenFile.data, "access_token", Null) = config.token_data.token

\* C12 amended: a successful refresh puts the renewed access token under the
\* key token of the in-memory record only, the other fields as they were; the
\* publish request of this run carries it; no step of a publish run writes
\* the token file.
C12_RenewedTokenInMemoryOnly ==
    [][ /\ tokenFile' = tokenFile
        /\ (pc = "post" /\ requests' # requests /\ RefreshSucceeded(requests'))
              => /\ Get(config'.token_data, "token", Null) \in NewAccessTokens
                 /\ config'.token_data
                        = SetToken(config.token_data, Get(config'.token_data, "token", Null))
                 /\ pc' = "publish"
        /\ (pc = "publish" /\ pc' = "done" /\ RefreshSucceeded(requests))
              => /\ Last(requests').kind = "publish"
                 /\ Last(requests').credential = config.token_data.token
                 /\ config' = config ]_vars

C12_Witness ==
    /\ pc = "done"
    /\ exit_status = 0
    /\ RefreshSucceeded(requests)
    /\ Len(requests) = 2
    /\ requests[2].kind = "publish"
    /\ requests[1].credential # Null
    /\ requests[2].credential \in NewAccessTokens
    /\ "token" \notin DOMAIN tokenFile.data
    /\ tokenFile.data.access_token # requests[2].credential

\* the run has come to its end after a publish POST
PublishAnswered ==
    /\ pc = "done"
    /\ requests # <<>>
    /\ Last(requests).kind = "publish"

\* C13: a run whose publish POST was answered with status 200 appends a
\* history entry and ends with exit status 0, whatever the body of the answer;
\* a run whose publish POST got any other outcome appends none and ends with a
\* non-zero exit status.
C13_Status200IsSuccess ==
    PublishAnswered
        => IF Last(requests).outcome = "ok"
           THEN /\ exit_status = 0
                /\ Len(history) = Len(load_post_history(fileAtStart)) + 1
           ELSE /\ exit_status > 0
                /\ history = load_post_history(fileAtStart)

\* the publish POSTs among the requests of the run
PublishRequests(reqs) == { i \in 1..Len(reqs) : reqs[i].kind = "publish" }

\* C14: a run issues at most one publish POST; once the publish POST has
\* failed (a network error or a status other than 200) the run is at its end,
\* with a non-zero exit status.
C14_OnePublishNoRetry ==
    /\ Cardinality(PublishRequests(requests)) <= 1
    /\ PublishFailed => pc = "done" /\ exit_status > 0

C14_Witness ==
    /\ pc = "done"
    /\ Len(requests) = 2
    /\ requests[1].kind = "refresh"
    /\ requests[2].kind = "publish"
    /\ requests[2].outcome = "network_error"
    /\ exit_status = 1

\* C15: whatever the content provider did, the article the run has after
\* content generation has a title, its own or the placeholder's, and the run
\* goes on to post_to_blog with it (the content sent is the HTML document
\* rendered from the article): it does not end between the two.
C15_ProviderFailureFallsBack ==
    content_data # NoContent
        => /\ "title" \in DOMAIN content_data
           /\ pc \in {"post", "publish", "done"}
           /\ (pc = "done" /\ requests = <<>>) => "token" \notin DOMAIN config.token_data

\* the four values load_config takes from the environment
Credentials(c) == { c.google_client_id, c.google_client_secret, c.blog_id, c.gemini_api_key }

\* C16: a run started with one of the four credentials missing from the
\* environment makes no network call: no request to the content provider,
\* none to the token endpoint, none to Blogger.
C16_MissingCredentialIsFatal ==
    (config.loaded /\ "***" \in Credentials(config))
        => /\ content_data = NoContent
           /\ requests = <<>>

\* the last callback went as far as the POST to the token endpoint, which had this outcome
Exchanged(outcome) ==
    /\ call.fn = "callback"
    /\ call.exchanged
    /\ call.outcome = outcome

\* C17: when the POST to the token endpoint fails at the network level,
\* get_access_token raises nothing and returns no token, and the callback
\* answers that the exchange failed.
C17_NetworkFailureIsErrorValue ==
    Exchanged("network_error")
        => /\ ~call.got.raised
           /\ call.got.ret = NoToken
           /\ reply = "exchange_failed_500"

\* the status of the response is printed: by the line for it, or within the
\* text of the HTTPError, which names it
StatusReported(reported) == "status_code" \in reported \/ "error" \in reported

BodyReported(reported) == "body" \in reported

\* C18: when the POST to the token endpoint gets a status that is not 2xx,
\* get_access_token has made one POST, prints the status code and the body of
\* the response, and returns no token.
C18_HttpErrorReported ==
    Exchanged("http_error")
        => /\ tokenPosts = 1
           /\ StatusReported(call.got.reported)
           /\ BodyReported(call.got.reported)
           /\ call.got.ret = NoToken

TokenRecordKeys ==
    {"access_token", "refresh_token", "token_type", "expires_in", "issued_at", "expires_at"}

C20_SaveFailureIsReported ==
    (Exchanged("ok") /\ call.saved # "written")
        => /\ reply = "save_failed_500"
           /\ exchanges > 0
           /\ call.saved = "open_failed" => tokenFile = call.before

C20_Witness ==
    /\ Exchanged("ok")
    /\ call.saved = "dump_failed"
    /\ call.before.readable
    /\ ~tokenFile.readable
    /\ reply = "save_failed_500"

\* the token file holds a record as save_token_data writes it
WrittenByScript(file) ==
    file.readable /\ DOMAIN file.data = TokenRecordKeys

\* C21: every token record written to the token file has
\* expires_at = issued_at + expires_in.
C21_ExpiryIsIssuePlusLifetime ==
    WrittenByScript(tokenFile)
        => tokenFile.data.expires_at = tokenFile.data.issued_at + tokenFile.data.expires_in

\* the run has appended its entry to the history: its publish succeeded
EntryAppended ==
    /\ pc = "done"
    /\ Len(history) = Len(load_post_history(fileAtStart)) + 1

\* the write of the history file by the run failed
SaveFailed == call.fn = "save_post_history" /\ call.outcome # "written"

\* C22: a run whose publish succeeded and whose write of the history file
\* failed comes to its end all the same, with exit status 0.
C22_FailedSaveDoesNotFailRun ==
    (EntryAppended /\ SaveFailed) => exit_status = 0

C22_Witness ==
    /\ EntryAppended
    /\ SaveFailed
    /\ fileAtStart.readable
    /\ historyFile = fileAtStart
    /\ exit_status = 0

\* the history without the entries whose timestamp is missing or does not parse
WellFormed(h) == SelectSeq(h, HasAge)

\* C23: should_post_today returns a result for every history, and the result
\* is the one it gives for the history without the entries whose timestamp is
\* missing or cannot be parsed: such an entry is never counted as a post of today.
C23_MalformedTimestampSkipped ==
    call.fn = "should_post_today"
        => /\ call.ret \in BOOLEAN
           /\ call.ret = (Cardinality(DatedToday(WellFormed(history), now))
                              < call.max_posts_per_day)

C23_Witness ==
    /\ call.fn = "should_post_today"
    /\ call.max_posts_per_day = 2
    /\ Len(history) = 2
    /\ "timestamp" \in DOMAIN history[1]
    /\ ~ParseOK(history[1].timestamp)
    /\ HasAge(history[2])
    /\ DatedToday(history, now) = {2}
    /\ call.ret = TRUE

\* the callback handled in this step did not exchange a code for tokens: it
\* carried an error, or no code, or its exchange failed
NoTokenObtained(c) ==
    /\ c.fn = "callback"
    /\ \/ c.error
       \/ ~c.code
       \/ c.outcome # "ok"

\* C24: a callback that carries an error parameter, one without a code, and
\* one whose exchange fails each leave the token file as it was, and the
\* first two make no request to the token endpoint; the token file changes
\* only in a callback whose exchange succeeded.
C24_StoreChangesOnlyOnExchange ==
    [][ exchanges' # exchanges
          => /\ NoTokenObtained(call') => tokenFile' = tokenFile
             /\ (call'.error \/ ~call'.code) => tokenPosts' = 0
             /\ tokenFile' # tokenFile
                   => call'.exchanged /\ call'.outcome = "ok" /\ tokenPosts' = 1 ]_vars

C24_Witness ==
    /\ Exchanged("http_error")
    /\ reply = "exchange_failed_500"
    /\ tokenPosts = 1
    /\ call.before.readable
    /\ tokenFile = call.before

\* the refresh requests among the requests of the run
RefreshRequests(reqs) == { i \in 1..Len(reqs) : reqs[i].kind = "refresh" }

\* C25: a run that has gone through the refresh step of post_to_blog has made
\* a refresh request exactly when its token record holds a refresh token; a
\* record whose refresh_token is null makes none.
C25_RefreshIffRefreshToken ==
    (pc = "publish" \/ PostToBlogCalled)
        => (RefreshRequests(requests) # {}
                <=> Get(config.token_data, "refresh_token", Null) # Null)

\* C26: in a run started with a topic on the command line, the topic selected
\* for content generation, and recorded in the history entry of the run, is
\* that topic.
C26_TopicOverrideIsUsed ==
    (args.topic # NoString /\ selected_topic # NoString)
        => /\ selected_topic = args.topic
           /\ EntryAppended => Last(history).topic = args.topic

\* the entries of h that a run of this behaviour recorded
RecordedByRun(h) ==
    { i \in 1..Len(h) : HasAge(h[i]) /\ fromisoformat(h[i].timestamp) >= StartTime }

\* C27: for every entry that an earlier successful run recorded and that is
\* still in the history, check_duplicate is true of the topic of the entry,
\* however long ago the entry was recorded.
C27_RecordedTopicIsDuplicate ==
    \A i \in RecordedByRun(history) :
        check_duplicate(history[i].topic, history, now)

\* C28: after a run whose save of the history failed, the history file gives
\* the next run the entries it held before the save.
C28_FailedSaveKeepsStoredHistory ==
    (EntryAppended /\ SaveFailed)
        => load_post_history(historyFile) = load_post_history(fileAtStart)

\* the save of the run has written the history file
SaveWritten == call.fn = "save_post_history" /\ call.outcome = "written"

\* C29: after a run that published and whose save wrote the file, the history
\* is the loaded one followed by one new entry, with success true and the hash
\* of its own title, and the file holds the last 100 entries of it, in their
\* order: the stored entries are as they were and the new entry is the last.
C29_FileIsLastHundredOfAppended ==
    (EntryAppended /\ SaveWritten)
        => /\ SubSeq(history, 1, Len(history) - 1) = load_post_history(fileAtStart)
           /\ Last(history).success = TRUE
           /\ Last(history).title_hash = md5(Last(history).title)
           /\ Len(historyFile.entries) = Min(Len(history), 100)
           /\ \A j \in 1..Len(historyFile.entries) :
                 historyFile.entries[j] =
                     history[Len(history) - Len(historyFile.entries) + j]

C29_Witness ==
    /\ EntryAppended
    /\ SaveWritten
    /\ Len(fileAtStart.entries) = 100
    /\ Len(historyFile.entries) = 100
    /\ historyFile.entries[1] = fileAtStart.entries[2]
    /\ historyFile.entries[99] = fileAtStart.entries[100]
    /\ historyFile.entries[100].topic = selected_topic
    /\ historyFile.entries[100].title # selected_topic

====
